---------------------------- MODULE Spec2Model ----------------------------
(***************************************************************************)
(* A model of data_processing/timeseries_analytical_tools.py:              *)
(*   find_optimal_pdq  (OrderSearch)        lines 44-79                    *)
(*   sarimax_plot      (ForecastPlotter)    lines 103-135                  *)
(*   test_stationarity (StationarityChecker) lines 12-33                   *)
(* The pandas / statsmodels calls the functions make are modelled by what  *)
(* they do to the index and to the values: label slicing, positional       *)
(* slicing, index alignment in arithmetic, NaN-skipping sums, NaN-last     *)
(* sorting, rolling windows with min_periods = window, calendar offsets.   *)
(* The numerical optimiser behind SARIMAX.fit is an environment: which     *)
(* pairs raise, the AIC it reports and the forecast it returns are drawn   *)
(* from small sets.                                                        *)
(***************************************************************************)
EXTENDS Integers, Sequences, FiniteSets, TLC

(***************************************************************************)
(* Bounds of the model.                                                    *)
(***************************************************************************)
MaxLen == 3
MaxRaise == 1
MaxRows == 6
MaxDelta == 2
MaxWindow == 4

(***************************************************************************)
(* Floats: a cell is <<v>> (a number) or <<>> (NaN, a missing value).      *)
(***************************************************************************)
NaN == <<>>

Num(v) == <<v>>

IsNaN(x) == x = NaN

Val(x) == x[1]

\* x - y on cells: NaN when either side is missing.
FSub(x, y) == IF IsNaN(x) \/ IsNaN(y) THEN NaN ELSE Num(Val(x) - Val(y))

\* x ** 2 on a cell.
FSquare(x) == IF IsNaN(x) THEN NaN ELSE Num(Val(x) * Val(x))

(***************************************************************************)
(* Calendar: a timestamp is <<year, month, day>>.                          *)
(***************************************************************************)
IsLeap(y) == (y % 4 = 0 /\ y % 100 # 0) \/ y % 400 = 0

DaysInMonth(y, m) ==
    IF m = 2 THEN (IF IsLeap(y) THEN 29 ELSE 28)
    ELSE IF m \in {4, 6, 9, 11} THEN 30 ELSE 31

DateLT(a, b) ==
    \/ a[1] < b[1]
    \/ a[1] = b[1] /\ a[2] < b[2]
    \/ a[1] = b[1] /\ a[2] = b[2] /\ a[3] < b[3]

DateLE(a, b) == a = b \/ DateLT(a, b)

\* <<year, month>> shifted by k months (k of either sign).
ShiftMonth(y, m, k) ==
    LET t == y * 12 + (m - 1) + k
    IN  <<t \div 12, (t % 12) + 1>>

NextDay(dt) ==
    IF dt[3] < DaysInMonth(dt[1], dt[2]) THEN <<dt[1], dt[2], dt[3] + 1>>
    ELSE LET ym == ShiftMonth(dt[1], dt[2], 1) IN <<ym[1], ym[2], 1>>

PrevDay(dt) ==
    IF dt[3] > 1 THEN <<dt[1], dt[2], dt[3] - 1>>
    ELSE LET ym == ShiftMonth(dt[1], dt[2], -1)
         IN  <<ym[1], ym[2], DaysInMonth(ym[1], ym[2])>>

RECURSIVE AddDays(_, _)
AddDays(dt, k) ==
    IF k = 0 THEN dt
    ELSE IF k > 0 THEN AddDays(NextDay(dt), k - 1)
    ELSE AddDays(PrevDay(dt), k + 1)

\* The frequencies of the model: calendar day, month start, month end.
Freqs == {"D", "MS", "M"}

\* ts + k * freq for a timestamp that lies on the frequency's grid.
FreqShift(ts, freq, k) ==
    IF freq = "D" THEN AddDays(ts, k)
    ELSE LET ym == ShiftMonth(ts[1], ts[2], k)
         IN  IF freq = "MS" THEN <<ym[1], ym[2], 1>>
             ELSE <<ym[1], ym[2], DaysInMonth(ym[1], ym[2])>>

\* A bug MinusDateOffsetMonths could have: days=k written for months=k.
MinusDateOffsetDays(ts, k) == AddDays(ts, -k)

\* ts - pd.DateOffset(months=k): the same day of the month k months earlier,
\* clipped to the last day of that month.
MinusDateOffsetMonths(ts, k) ==
    LET ym == ShiftMonth(ts[1], ts[2], -k)
        dim == DaysInMonth(ym[1], ym[2])
    IN  <<ym[1], ym[2], IF ts[3] < dim THEN ts[3] ELSE dim>>

(***************************************************************************)
(* Series: [freq, index, values], index a sequence of timestamps in        *)
(* increasing order and values the cells at those timestamps.              *)
(***************************************************************************)
\* pd.date_range(start, periods=n, freq=freq)
DateRange(start, freq, n) == [k \in 1..n |-> FreqShift(start, freq, k - 1)]

MkSeries(freq, index, values) == [freq |-> freq, index |-> index, values |-> values]

SeriesLen(s) == Len(s.index)

Labels(s) == {s.index[k] : k \in 1..Len(s.index)}

\* s.index.max()
IndexMax(s) ==
    CHOOSE t \in Labels(s) : \A u \in Labels(s) : DateLE(u, t)

\* The cell of s at label t (NaN when s has no such label: reindexing).
At(s, t) ==
    IF t \in Labels(s)
    THEN s.values[CHOOSE k \in 1..Len(s.index) : s.index[k] = t]
    ELSE NaN

\* s.loc[lo:hi], both ends included; lo = <<>> stands for None.
Loc(s, lo, hi) ==
    LET keep == {k \in 1..Len(s.index) :
                    /\ (lo = <<>> \/ DateLE(lo, s.index[k]))
                    /\ DateLE(s.index[k], hi)}
        f[k \in 0..Len(s.index)] ==
            IF k = 0 THEN <<>>
            ELSE IF k \in keep THEN Append(f[k - 1], k) ELSE f[k - 1]
        ks == f[Len(s.index)]
    IN  MkSeries(s.freq, [x \in 1..Len(ks) |-> s.index[ks[x]]],
                         [x \in 1..Len(ks) |-> s.values[ks[x]]])

\* A bug LastRows could have: the slice starts one row early.
LastRowsOneMore(s, k) ==
    LET n == Len(s.index)
        from == IF k + 1 >= n THEN 1 ELSE n - k
    IN  MkSeries(s.freq, SubSeq(s.index, from, n), SubSeq(s.values, from, n))

\* s[-k:], positional: Python's -0 is 0, so s[-0:] is the whole series.
LastRows(s, k) ==
    LET n == Len(s.index)
        from == IF k = 0 THEN 1 ELSE IF k >= n THEN 1 ELSE n - k + 1
    IN  MkSeries(s.freq, SubSeq(s.index, from, n), SubSeq(s.values, from, n))

\* The labels of a set in increasing order.
RECURSIVE SortDates(_)
SortDates(S) ==
    IF S = {} THEN <<>>
    ELSE LET lo == CHOOSE t \in S : \A u \in S : DateLE(t, u)
         IN  <<lo>> \o SortDates(S \ {lo})

\* a - b on series: aligned on the union of the two indexes, NaN where a
\* label is missing on either side.
SeriesSub(a, b) ==
    LET idx == SortDates(Labels(a) \cup Labels(b))
    IN  MkSeries(a.freq, idx, [k \in 1..Len(idx) |-> FSub(At(a, idx[k]), At(b, idx[k]))])

\* s ** 2
SeriesSquare(s) ==
    MkSeries(s.freq, s.index, [k \in 1..Len(s.values) |-> FSquare(s.values[k])])

\* s.sum(): NaN cells are skipped, and the sum of nothing is 0.
RECURSIVE SumCells(_)
SumCells(vs) ==
    IF vs = <<>> THEN 0
    ELSE (IF IsNaN(Head(vs)) THEN 0 ELSE Val(Head(vs))) + SumCells(Tail(vs))

SeriesSum(s) == Num(SumCells(s.values))

(***************************************************************************)
(* find_optimal_pdq: the search space.                                     *)
(***************************************************************************)
\* p = d = q = range(0, 2)
range02 == <<0, 1>>

\* itertools.product(p, d, q): the last factor varies fastest.
Product3(p, d, q) ==
    [k \in 1..(Len(p) * Len(d) * Len(q)) |->
        <<p[((k - 1) \div (Len(d) * Len(q))) + 1],
          d[(((k - 1) \div Len(q)) % Len(d)) + 1],
          q[((k - 1) % Len(q)) + 1]>>]

SeasonalPeriod == 12

pdq == Product3(range02, range02, range02)

seasonal_pdq ==
    LET prod == Product3(range02, range02, range02)
    IN  [k \in 1..Len(prod) |-> <<prod[k][1], prod[k][2], prod[k][3], SeasonalPeriod>>]

\* Every (order, seasonal_order) the two loops visit.
Pairs == {<<pdq[a], seasonal_pdq[b]>> : a \in 1..Len(pdq), b \in 1..Len(seasonal_pdq)}

\* The pairs in the order the loops visit them.
PairAt(k) == <<pdq[((k - 1) \div Len(seasonal_pdq)) + 1],
               seasonal_pdq[((k - 1) % Len(seasonal_pdq)) + 1]>>

NPairs == Len(pdq) * Len(seasonal_pdq)

(***************************************************************************)
(* State.                                                                  *)
(***************************************************************************)
VARIABLES
    data,            \* the series handed to find_optimal_pdq / sarimax_plot
    train_delta,     \* the training-window length
    start_train,     \* optional first label of the training slice (<<>>: None)
    raising,         \* environment: the pairs whose fit or forecast raises
    fits,            \* environment: the [aic, forecast] a fit may end with
    pc,              \* "call", "loop", "returned"
    train_date,      \* find_optimal_pdq's training cutoff
    i, j,            \* positions of the two loops in pdq and seasonal_pdq
    param, param_seasonal,     \* the loop variables
    prediction, actual, mse,   \* locals of the latest iteration
    test_results,    \* the rows collected so far
    stdout,          \* what print() wrote, one entry per call
    sarimax_calls,   \* the SARIMAX models built so far, with how each ended
    escaped,         \* the exception that left the function ("none")
    results_df, min_aic, min_mse, returned,
    plot_args,       \* sarimax_plot's order, seasonal_order, predict_delta,
                     \* start_date and filename
    plot_pc,         \* "call", "returned", "raised"
    plot_train_date, \* sarimax_plot's training cutoff
    plot_prediction, plot_conf_interval, plot_saved, plot_res,
    timeseries, window,        \* test_stationarity's arguments
    stat_pc,         \* "call", "returned", "raised"
    rolmean, rolstd, orig, dfoutput

searchVars == <<data, train_delta, start_train, raising, fits, pc,
                train_date, i, j, param, param_seasonal, prediction, actual,
                mse, test_results, stdout, sarimax_calls, escaped, results_df,
                min_aic, min_mse, returned>>

plotVars == <<plot_args, plot_pc, plot_train_date, plot_prediction,
              plot_conf_interval, plot_saved, plot_res>>

statVars == <<timeseries, window, stat_pc, rolmean, rolstd, orig, dfoutput>>

vars == <<searchVars, plotVars, statVars>>

None == <<>>

(***************************************************************************)
(* find_optimal_pdq, line by line.                                         *)
(***************************************************************************)
\* line 46: data.index.max() - (train_delta * data.index.freq)
TrainDate(s, delta) == FreqShift(IndexMax(s), s.freq, -delta)

\* line 56: data.loc[start_train:train_date]
TrainSlice(s, lo, hi) == Loc(s, lo, hi)

\* results.predict(start, end): one point per position start..end, both ends
\* included; position k (from 0) carries the label index[0] + k * freq.
\* The values are the environment's: "last" repeats the last training
\* observation, "zero" decays to 0 at once.
Predict(train, kind, start, end) ==
    LET n == IF end >= start THEN end - start + 1 ELSE 0
    IN  MkSeries(train.freq,
                 [k \in 1..n |-> FreqShift(train.index[1], train.freq, start + k - 1)],
                 [k \in 1..n |-> IF kind = "last" THEN train.values[Len(train.values)]
                                 ELSE Num(0)])

\* A bug PredictEnd could have: the end taken as exclusive.
PredictEndExclusive(n, delta) == n + delta - 1

\* line 62: the last position asked of predict.
PredictEnd(n, delta) == n + delta

\* line 65: ((prediction - actual) ** 2).sum()
Score(pred, act) == SeriesSum(SeriesSquare(SeriesSub(pred, act)))

\* A bug ResultString could have: the order formatted twice.
ResultStringOrderTwice(order, seasonal, aic, m) ==
    <<"ARIMA", order, "x", order, "12 - AIC:", aic, " - MSE:", m>>

\* line 67: 'ARIMA{}x{}12 - AIC:{} - MSE:{}'.format(...)
ResultString(order, seasonal, aic, m) ==
    <<"ARIMA", order, "x", seasonal, "12 - AIC:", aic, " - MSE:", m>>

\* line 71: what the except branch prints before the exception.
ExceptionContext(order, seasonal) == <<"exception in:", pdq, seasonal_pdq>>

\* A bug AfterExcept could have: break, which leaves both loops.
AfterExceptBreak(a, b) == <<Len(pdq) + 1, 1>>

\* line 73: continue -- the next position of the two loops.
AfterExcept(a, b) == IF b < Len(seasonal_pdq) THEN <<a, b + 1>> ELSE <<a + 1, 1>>

\* The loops' own advance after a body that ran to its end.
AfterBody(a, b) == IF b < Len(seasonal_pdq) THEN <<a, b + 1>> ELSE <<a + 1, 1>>

\* The fit or the forecast of a pair raises: the environment's choice for
\* the pair, and always on an empty sample.
FitRaises(train, order, seasonal) ==
    SeriesLen(train) = 0 \/ <<order, seasonal>> \in raising

\* The exception the library raises for a pair.
FitError(order, seasonal) ==
    IF order[2] = 1 /\ seasonal[2] = 1 THEN "LinAlgError" ELSE "ValueError"

Start ==
    /\ pc = "call"
    /\ train_date' = TrainDate(data, train_delta)
    /\ test_results' = <<>>
    /\ i' = 1
    /\ j' = 1
    /\ pc' = "loop"
    /\ UNCHANGED <<data, train_delta, start_train, raising, fits,
                   param, param_seasonal, prediction, actual, mse, stdout,
                   sarimax_calls, escaped, results_df, min_aic, min_mse, returned,
                   plotVars, statVars>>

\* lines 55-68: the try body ran to its end.
AttemptFit ==
    /\ pc = "loop"
    /\ i <= Len(pdq)
    /\ ~FitRaises(TrainSlice(data, start_train, train_date), pdq[i], seasonal_pdq[j])
    /\ \E fit \in fits, train \in {TrainSlice(data, start_train, train_date)} :
         \E pred \in {Predict(train, fit.forecast, SeriesLen(train),
                              PredictEnd(SeriesLen(train), train_delta))},
            act \in {LastRows(data, train_delta)} :
            \E m \in {Score(pred, act)} :
               /\ prediction' = pred
               /\ actual' = act
               /\ mse' = m
               /\ test_results' = Append(test_results,
                      <<ResultString(pdq[i], seasonal_pdq[j], fit.aic, m),
                        fit.aic, m>>)
    /\ param' = pdq[i]
    /\ param_seasonal' = seasonal_pdq[j]
    /\ sarimax_calls' = Append(sarimax_calls,
            [order |-> pdq[i], seasonal_order |-> seasonal_pdq[j], raised |-> FALSE])
    /\ i' = AfterBody(i, j)[1]
    /\ j' = AfterBody(i, j)[2]
    /\ UNCHANGED <<data, train_delta, start_train, raising, fits, pc,
                   train_date, stdout, escaped, results_df, min_aic, min_mse,
                   returned, plotVars, statVars>>

\* lines 70-73: the fit or the forecast raised.
AttemptExcept ==
    /\ pc = "loop"
    /\ i <= Len(pdq)
    /\ FitRaises(TrainSlice(data, start_train, train_date), pdq[i], seasonal_pdq[j])
    /\ param' = pdq[i]
    /\ param_seasonal' = seasonal_pdq[j]
    /\ sarimax_calls' = Append(sarimax_calls,
            [order |-> pdq[i], seasonal_order |-> seasonal_pdq[j], raised |-> TRUE])
    /\ stdout' = stdout \o <<ExceptionContext(pdq[i], seasonal_pdq[j]),
                              <<FitError(pdq[i], seasonal_pdq[j])>> >>
    /\ i' = AfterExcept(i, j)[1]
    /\ j' = AfterExcept(i, j)[2]
    /\ UNCHANGED <<data, train_delta, start_train, raising, fits, pc,
                   train_date, prediction, actual, mse, test_results, escaped,
                   results_df, min_aic, min_mse, returned, plotVars, statVars>>

(***************************************************************************)
(* The result table: pd.DataFrame, sort_values, head.                      *)
(***************************************************************************)
Columns == <<"key", "aic", "mse">>

\* pd.DataFrame(rows, columns=columns)
DataFrame(rows, columns) == [columns |-> columns, rows |-> rows]

\* The constructor raises when a row has not one cell per column.
DataFrameRaises(rows, columns) ==
    \E k \in 1..Len(rows) : Len(rows[k]) # Len(columns)

ColumnOf(df, by) == CHOOSE c \in 1..Len(df.columns) : df.columns[c] = by

\* sort_values raises KeyError for a column the table has not.
SortValuesRaises(df, by) == \A c \in 1..Len(df.columns) : df.columns[c] # by

\* x sorts before y: ascending, NaN last (na_position='last').
CellLT(x, y) == ~IsNaN(x) /\ (IsNaN(y) \/ Val(x) < Val(y))

\* The rows in ascending order of column c, rows of equal key in table
\* order: row k lands behind every row that sorts before it.
SortRows(rows, c) ==
    LET n == Len(rows)
        before(m, k) ==
            \/ CellLT(rows[m][c], rows[k][c])
            \/ ~CellLT(rows[k][c], rows[m][c]) /\ m < k
        placed ==
            {[r \in 1..n |-> rows[CHOOSE k \in 1..n : rank[k] = r]] :
                rank \in {[k \in 1..n |->
                             Cardinality({m \in 1..n : before(m, k)}) + 1]}}
    IN  CHOOSE s \in placed : TRUE

\* A bug SortValues could have: the table left in the order it was built.
SortValuesUnsorted(df, by) == df

\* df.sort_values(by): ascending, NaN last; a sort of at most 16 rows keeps
\* equal keys in table order, and the order among equal keys is no part of
\* any property below.
SortValues(df, by) == DataFrame(SortRows(df.rows, ColumnOf(df, by)), df.columns)

\* head()'s default n
HeadRows == 5

\* df.head(n): the first n rows, all of them when there are fewer.
DfHead(df, n) ==
    DataFrame(SubSeq(df.rows, 1, IF Len(df.rows) < n THEN Len(df.rows) ELSE n),
              df.columns)

\* A bug HeadRaises could have: the n-th row taken by position.
HeadRaisesOnShort(df, n) == Len(df.rows) < n

\* head() raises on no table, however short.
HeadRaises(df, n) == FALSE

\* line 79: what the function returns.
ReturnValue(df, by_aic, by_mse) == df

\* lines 74-79: build the table, print the two summaries, return the table.
Finish ==
    /\ pc = "loop"
    /\ i > Len(pdq)
    /\ LET df == DataFrame(test_results, Columns)
           bad == \/ DataFrameRaises(test_results, Columns)
                  \/ SortValuesRaises(df, "aic")
                  \/ SortValuesRaises(df, "mse")
                  \/ HeadRaises(df, HeadRows)
       IN  IF bad
           THEN /\ escaped' = "raised"
                /\ pc' = "raised"
                /\ UNCHANGED <<results_df, min_aic, min_mse, stdout, returned>>
           ELSE LET a == DfHead(SortValues(df, "aic"), HeadRows)
                    m == DfHead(SortValues(df, "mse"), HeadRows)
                IN  /\ results_df' = df
                    /\ min_aic' = a
                    /\ min_mse' = m
                    /\ stdout' = stdout \o << <<"Min AIC:", a>>, <<"Min MSE:", m>> >>
                    /\ returned' = ReturnValue(df, a, m)
                    /\ pc' = "returned"
                    /\ escaped' = escaped
    /\ UNCHANGED <<data, train_delta, start_train, raising, fits,
                   train_date, i, j, param, param_seasonal, prediction, actual,
                   mse, test_results, sarimax_calls, plotVars, statVars>>

NextSearch == Start \/ AttemptFit \/ AttemptExcept \/ Finish

(***************************************************************************)
(* Inputs.                                                                 *)
(***************************************************************************)
SeriesFrom(start, freq, values) ==
    MkSeries(freq, DateRange(start, freq, Len(values)), values)

\* The first label of the sample series of each frequency; the daily and
\* the month-end ones cross the end of February of a leap year.
FirstLabel(freq) ==
    IF freq = "D" THEN <<2020, 2, 27>>
    ELSE IF freq = "MS" THEN <<2019, 12, 1>>
    ELSE <<2019, 12, 31>>

\* The observations of the sample series.
Observations == {Num(3), Num(5)}

RECURSIVE SeqsOf(_, _)
SeqsOf(S, n) ==
    IF n = 0 THEN {<<>>}
    ELSE {Append(q, x) : q \in SeqsOf(S, n - 1), x \in S}

RECURSIVE SubsetsUpTo(_, _)
SubsetsUpTo(S, k) ==
    IF k = 0 THEN {{}}
    ELSE LET prev == SubsetsUpTo(S, k - 1)
         IN  prev \cup {T \cup {x} : T \in prev, x \in S}

\* Which pairs raise: at most MaxRaise of them, or all but at most MaxRaise.
RaisePatterns ==
    LET few == SubsetsUpTo(Pairs, MaxRaise)
    IN  few \cup {Pairs \ T : T \in few}

\* The state before find_optimal_pdq is called.
NotCalled ==
    /\ pc = "call"
    /\ train_date = None
    /\ i = 0
    /\ j = 0
    /\ param = None
    /\ param_seasonal = None
    /\ prediction = None
    /\ actual = None
    /\ mse = None
    /\ test_results = <<>>
    /\ stdout = <<>>
    /\ sarimax_calls = <<>>
    /\ escaped = "none"
    /\ results_df = None
    /\ min_aic = None
    /\ min_mse = None
    /\ returned = None

\* The state before sarimax_plot is called.
PlotNotCalled ==
    /\ plot_pc = "call"
    /\ plot_train_date = None
    /\ plot_prediction = None
    /\ plot_conf_interval = None
    /\ plot_saved = None
    /\ plot_res = None

\* The state before test_stationarity is called.
StatNotCalled ==
    /\ stat_pc = "call"
    /\ rolmean = None
    /\ rolstd = None
    /\ orig = None
    /\ dfoutput = None

\* No call of sarimax_plot is made.
NoPlot == plot_args = None /\ PlotNotCalled

\* No call of test_stationarity is made.
NoStat == timeseries = None /\ window = 0 /\ StatNotCalled

\* Every pattern of raising pairs, on one series.
Init ==
    /\ data = SeriesFrom(FirstLabel("MS"), "MS", <<Num(3), Num(5), Num(4)>>)
    /\ train_delta = 1
    /\ start_train = None
    /\ raising \in RaisePatterns
    /\ fits = {[aic |-> Num(10), forecast |-> "last"]}
    /\ NotCalled
    /\ NoPlot
    /\ NoStat

Spec == Init /\ [][NextSearch]_vars

(***************************************************************************)
(* Properties of the search loop, under Spec.                              *)
(***************************************************************************)
\* The 64 pairs, written out: {0,1}^3 and {0,1}^3 with period 12 appended.
AllPairs ==
    {<< <<p, d, q>>, <<sp, sd, sq, 12>> >> :
        p \in {0, 1}, d \in {0, 1}, q \in {0, 1},
        sp \in {0, 1}, sd \in {0, 1}, sq \in {0, 1}}

CallPair(c) == <<c.order, c.seasonal_order>>

Ended == pc \in {"returned", "raised"}

\* C1: an exception raised for one pair is caught, the pair is not tried
\* again and the search goes on: no exception leaves the loop, the pair
\* fitted last was never fitted before, and when the function has ended each of the 64 pairs
\* was fitted exactly once, whichever of them raised.
C1_EveryPairAttemptedOnce ==
    /\ pc = "loop" => escaped = "none"
    /\ \A a \in 1..(Len(sarimax_calls) - 1) :
          CallPair(sarimax_calls[a]) # CallPair(sarimax_calls[Len(sarimax_calls)])
    /\ Ended =>
          /\ Len(sarimax_calls) = 64
          /\ {CallPair(sarimax_calls[k]) : k \in 1..Len(sarimax_calls)} = AllPairs

\* C1 witness: the search ended after a pair that raised, and a later pair
\* was fitted with success.
C1_Witness ==
    /\ pc = "returned"
    /\ \E a, b \in 1..Len(sarimax_calls) :
          a < b /\ sarimax_calls[a].raised /\ ~sarimax_calls[b].raised

\* C2: when every fit raised, the function returns (nothing escapes from
\* building the table or from the two summaries) and the table is empty.
C2_AllRaiseReturnsEmpty ==
    (Ended /\ \A k \in 1..Len(sarimax_calls) : sarimax_calls[k].raised) =>
        /\ pc = "returned"
        /\ escaped = "none"
        /\ returned.rows = <<>>
        /\ returned.columns = <<"key", "aic", "mse">>

\* C2 witness: all 64 fits raised and the function returned.
C2_Witness ==
    /\ pc = "returned"
    /\ Len(sarimax_calls) = 64
    /\ \A k \in 1..Len(sarimax_calls) : sarimax_calls[k].raised

\* The row is the one recorded for the pair: its key names the two tuples.
RowOf(row, pair) == row[1][2] = pair[1] /\ row[1][4] = pair[2]

\* C3: the returned table has at most 64 rows, one for each pair that did
\* not raise and none for a pair that raised.
C3_RowsMatchSuccesses ==
    pc = "returned" =>
        /\ Len(returned.rows) <= 64
        /\ \A k \in 1..Len(sarimax_calls) :
              Cardinality({r \in 1..Len(returned.rows) :
                              RowOf(returned.rows[r], CallPair(sarimax_calls[k]))})
                  = IF sarimax_calls[k].raised THEN 0 ELSE 1
        /\ \A r \in 1..Len(returned.rows) :
              \E k \in 1..Len(sarimax_calls) :
                  RowOf(returned.rows[r], CallPair(sarimax_calls[k]))

\* C3 witness: a returned table with rows, and with pairs that have none.
C3_Witness ==
    /\ pc = "returned"
    /\ Len(returned.rows) >= 1
    /\ \E k \in 1..Len(sarimax_calls) : sarimax_calls[k].raised

\* C6: the context line printed for a failure names the pair that was being
\* fitted when the exception was raised, and the next line is the exception.
C6_LogIdentifiesPair ==
    (pc = "loop" /\ sarimax_calls # <<>>
        /\ sarimax_calls[Len(sarimax_calls)].raised) =>
        /\ stdout[Len(stdout)] =
              <<FitError(sarimax_calls[Len(sarimax_calls)].order,
                         sarimax_calls[Len(sarimax_calls)].seasonal_order)>>
        /\ stdout[Len(stdout) - 1] =
              <<"exception in:", sarimax_calls[Len(sarimax_calls)].order,
                sarimax_calls[Len(sarimax_calls)].seasonal_order>>

(***************************************************************************)
(* Scoring, under SpecScore: series of every frequency and length, every   *)
(* training window that leaves a training slice, with and without          *)
(* start_train; the last two pairs fit, with either forecast.              *)
(***************************************************************************)
SampleSeries ==
    {SeriesFrom(FirstLabel(f), f, vs) :
        f \in Freqs, vs \in UNION {SeqsOf(Observations, n) : n \in 2..MaxLen}}

InitScore ==
    /\ data \in SampleSeries
    /\ train_delta \in 0..MaxDelta
    /\ start_train \in {None} \cup {data.index[2]}
    /\ SeriesLen(TrainSlice(data, start_train, TrainDate(data, train_delta))) >= 1
    /\ raising = Pairs \ {PairAt(NPairs - 1), PairAt(NPairs)}
    /\ fits = {[aic |-> Num(10), forecast |-> "last"],
               [aic |-> Num(10), forecast |-> "zero"]}
    /\ NotCalled
    /\ NoPlot
    /\ NoStat

SpecScore == InitScore /\ [][NextSearch]_vars

\* The latest iteration ran its try body to the end.
LastFitScored ==
    /\ pc = "loop"
    /\ sarimax_calls # <<>>
    /\ ~sarimax_calls[Len(sarimax_calls)].raised

RECURSIVE SquaredErrorSum(_, _, _)
SquaredErrorSum(T, f, a) ==
    IF T = {} THEN 0
    ELSE LET t == CHOOSE u \in T : TRUE
             e == Val(At(f, t)) - Val(At(a, t))
         IN  e * e + SquaredErrorSum(T \ {t}, f, a)

\* The labels that carry both a forecast and an actual observation.
Compared == Labels(prediction) \cap Labels(actual)

\* The row appended by the latest iteration.
LastRow == test_results[Len(test_results)]

\* C4: the value recorded as MSE is the mean of the squared errors: times
\* the number of compared observations, it is their sum.
C4_RecordedIsMean ==
    (LastFitScored /\ Compared # {}) =>
        Val(LastRow[3]) * Cardinality(Compared)
            = SquaredErrorSum(Compared, prediction, actual)

\* The last label of the training slice.
LastTrainLabel ==
    LET T == {t \in Labels(data) :
                 /\ DateLE(t, train_date)
                 /\ (start_train = None \/ DateLE(start_train, t))}
    IN  CHOOSE t \in T : \A u \in T : DateLE(u, t)

\* C5 as stated: the forecast has train_delta points, the first one step
\* after the last training observation.
C5_ForecastHasWindowPoints ==
    LastFitScored =>
        /\ Len(prediction.index) = train_delta
        /\ prediction.index[1] = FreqShift(LastTrainLabel, data.freq, 1)

\* C5 amended: the forecast has train_delta + 1 points, one per step of the
\* frequency, the first one step after the last training observation.
C5_ForecastSpan ==
    LastFitScored =>
        /\ Len(prediction.index) = train_delta + 1
        /\ \A k \in 1..Len(prediction.index) :
              prediction.index[k] = FreqShift(LastTrainLabel, data.freq, k)

\* C5 witness: a forecast over a window of two steps was scored.
C5_Witness == LastFitScored /\ train_delta = 2

\* C10: without start_train and with 1 <= train_delta < n, the actual
\* observations are those of the train_delta labels after the cutoff, each
\* has a forecast of its own label, the recorded score is the sum over these
\* labels of the squared difference of the two, and the one forecast left
\* over is that of the step after max(index).
C10_ScoredOverHoldout ==
    (LastFitScored /\ start_train = None
        /\ 1 <= train_delta /\ train_delta < SeriesLen(data)) =>
        LET holdout == {t \in Labels(data) : DateLT(train_date, t)}
        IN  /\ Cardinality(holdout) = train_delta
            /\ Labels(actual) = holdout
            /\ \A t \in holdout : At(actual, t) = At(data, t)
            /\ holdout \subseteq Labels(prediction)
            /\ LastRow[3] = Num(SquaredErrorSum(holdout, prediction, data))
            /\ Labels(prediction) \ holdout
                  = {FreqShift(IndexMax(data), data.freq, 1)}

\* C10 witness: a window of two steps scored with a forecast that misses.
C10_Witness ==
    /\ LastFitScored
    /\ start_train = None
    /\ train_delta = 2
    /\ Val(LastRow[3]) > 0

(***************************************************************************)
(* The summaries, under SpecRank: the last r pairs fit (r up to MaxRows),  *)
(* each with one of four results: equal and unequal AICs, a NaN AIC, and   *)
(* either forecast.                                                        *)
(***************************************************************************)
InitRank ==
    /\ data = SeriesFrom(FirstLabel("MS"), "MS", <<Num(3), Num(5), Num(4)>>)
    /\ train_delta = 2
    /\ start_train = None
    /\ \E r \in 0..MaxRows :
          raising = Pairs \ {PairAt(k) : k \in (NPairs - r + 1)..NPairs}
    /\ fits = {[aic |-> Num(1), forecast |-> "last"],
               [aic |-> Num(2), forecast |-> "zero"],
               [aic |-> Num(2), forecast |-> "last"],
               [aic |-> NaN, forecast |-> "zero"]}
    /\ NotCalled
    /\ NoPlot
    /\ NoStat

SpecRank == InitRank /\ [][NextSearch]_vars

\* x is no greater than y, a NaN counting as greater than every number.
NoGreater(x, y) == IsNaN(y) \/ (~IsNaN(x) /\ Val(x) <= Val(y))

\* summary holds the min(5, n) rows of table that are lowest in column c,
\* in non-decreasing order of that column.
LowestFive(summary, table, c) ==
    /\ Len(summary) = IF Len(table) < 5 THEN Len(table) ELSE 5
    /\ \A k \in 1..(Len(summary) - 1) : NoGreater(summary[k][c], summary[k + 1][c])
    /\ \A k \in 1..Len(summary) : \E r \in 1..Len(table) : table[r] = summary[k]
    /\ \A a, b \in 1..Len(summary) : a # b => summary[a] # summary[b]
    /\ \A r \in 1..Len(table) :
          (\A k \in 1..Len(summary) : summary[k] # table[r]) =>
              \A k \in 1..Len(summary) : NoGreater(summary[k][c], table[r][c])

\* C7: the two printed summaries are the five lowest rows of the table by
\* AIC and by MSE (all rows when there are fewer), each in non-decreasing
\* order of its column, and the function returns the full table: one row
\* per successful fit, in the order of the fits.
C7_SummariesAndReturn ==
    pc = "returned" =>
        /\ LowestFive(min_aic.rows, test_results, 2)
        /\ LowestFive(min_mse.rows, test_results, 3)
        /\ stdout[Len(stdout) - 1] = <<"Min AIC:", min_aic>>
        /\ stdout[Len(stdout)] = <<"Min MSE:", min_mse>>
        /\ returned.rows = test_results
        /\ returned.columns = <<"key", "aic", "mse">>
        /\ Len(test_results)
              = Cardinality({k \in 1..Len(sarimax_calls) : ~sarimax_calls[k].raised})

\* C7 witness: more than five rows, a summary that is not the table's first
\* five rows, and two summaries that differ.
C7_Witness ==
    /\ pc = "returned"
    /\ Len(returned.rows) > 5
    /\ min_aic.rows # SubSeq(returned.rows, 1, 5)
    /\ min_aic.rows # min_mse.rows
    /\ \E k \in 1..5 : IsNaN(min_aic.rows[k][2])

(***************************************************************************)
(* sarimax_plot.                                                           *)
(***************************************************************************)
\* line 105: data.index.max() - pd.DateOffset(months=train_delta)
PlotTrainDate(s, delta) == MinusDateOffsetMonths(IndexMax(s), delta)

\* lines 105-135, the fit returning: cutoff, fit, forecast, confidence band
\* of predict_delta + 1 steps, chart saved when a filename is given.
SarimaxPlot ==
    /\ pc = "returned"
    /\ plot_pc = "call"
    /\ LET cutoff == PlotTrainDate(data, train_delta)
           train == Loc(data, plot_args.start_date, cutoff)
           n == SeriesLen(train)
       IN  /\ ~FitRaises(train, plot_args.order, plot_args.seasonal_order)
           /\ plot_train_date' = cutoff
           /\ \E fit \in fits :
                /\ plot_res' = [nobs |-> n, aic |-> fit.aic]
                /\ plot_prediction' =
                      Predict(train, fit.forecast, n, n + plot_args.predict_delta)
                /\ plot_conf_interval' =
                      Predict(train, fit.forecast, n,
                              n + (plot_args.predict_delta + 1) - 1).index
    /\ plot_saved' = plot_args.filename
    /\ plot_pc' = "returned"
    /\ UNCHANGED <<searchVars, plot_args, statVars>>

\* lines 105-114, the fit raising: nothing is caught, nothing is drawn.
SarimaxPlotRaises ==
    /\ pc = "returned"
    /\ plot_pc = "call"
    /\ LET cutoff == PlotTrainDate(data, train_delta)
           train == Loc(data, plot_args.start_date, cutoff)
       IN  /\ FitRaises(train, plot_args.order, plot_args.seasonal_order)
           /\ plot_train_date' = cutoff
    /\ plot_pc' = "raised"
    /\ UNCHANGED <<searchVars, plot_args, plot_prediction, plot_conf_interval,
                   plot_saved, plot_res, statVars>>

NextCutoff == NextSearch \/ SarimaxPlot \/ SarimaxPlotRaises

\* The first labels of the series the two cutoffs are compared on.
FirstLabels(freq) ==
    IF freq = "D" THEN {<<2020, 2, 27>>, <<2019, 12, 30>>}
    ELSE IF freq = "MS" THEN {<<2019, 12, 1>>, <<2020, 2, 1>>}
    ELSE {<<2019, 12, 31>>, <<2020, 1, 31>>}

\* Both functions on the same series with the same training window: series
\* of every frequency, sarimax_plot on a pair that raises and on one that
\* fits, with and without a filename.
InitCutoff ==
    /\ \E f \in Freqs, n \in 2..MaxLen :
          \E first \in FirstLabels(f) :
              data = SeriesFrom(first, f, [k \in 1..n |-> Num(3 + k)])
    /\ train_delta \in 0..MaxDelta
    /\ start_train = None
    /\ raising = Pairs \ {PairAt(NPairs)}
    /\ fits = {[aic |-> Num(10), forecast |-> "last"]}
    /\ NotCalled
    /\ \E pair \in {PairAt(1), PairAt(NPairs)}, name \in {None, <<"chart.png">>} :
          plot_args = [order |-> pair[1], seasonal_order |-> pair[2],
                       predict_delta |-> 1, start_date |-> None,
                       filename |-> name]
    /\ PlotNotCalled
    /\ NoStat

SpecCutoff == InitCutoff /\ [][NextCutoff]_vars

BothCutoffsComputed == pc = "returned" /\ plot_pc # "call"

\* C8 as stated: for the same series and training window the two functions
\* compute the same cutoff, whatever the frequency of the series.
C8_SameCutoffAnyFrequency ==
    BothCutoffsComputed => plot_train_date = train_date

\* C8 amended: the two cutoffs are equal for a month-start series; whatever
\* the frequency, sarimax_plot's cutoff lies train_delta calendar months
\* before max(index), on the same day of the month or on that month's last.
C8_SameCutoffMonthStart ==
    BothCutoffsComputed =>
        /\ data.freq = "MS" => plot_train_date = train_date
        /\ plot_train_date[1] * 12 + plot_train_date[2]
              = IndexMax(data)[1] * 12 + IndexMax(data)[2] - train_delta
        /\ \/ plot_train_date[3] = IndexMax(data)[3]
           \/ /\ plot_train_date[3] < IndexMax(data)[3]
              /\ plot_train_date[3] = DaysInMonth(plot_train_date[1], plot_train_date[2])

\* C8 witness: both cutoffs of a month-start series, two months back.
C8_Witness ==
    /\ BothCutoffsComputed
    /\ data.freq = "MS"
    /\ train_delta = 2
    /\ plot_pc = "returned"

(***************************************************************************)
(* test_stationarity.                                                      *)
(***************************************************************************)
\* A bug MinPeriods could have: min_periods=1 passed to rolling().
MinPeriodsOne(w) == 1

\* rolling(window=window): min_periods defaults to the window.
MinPeriods(w) == w

\* The observations (NaN left out) of the window that ends at position k.
WindowObs(vs, w, k) ==
    LET lo == IF k - w + 1 < 1 THEN 1 ELSE k - w + 1
    IN  SelectSeq(SubSeq(vs, lo, k), LAMBDA x : ~IsNaN(x))

RECURSIVE SumSquares(_)
SumSquares(vs) ==
    IF vs = <<>> THEN 0 ELSE Val(Head(vs)) * Val(Head(vs)) + SumSquares(Tail(vs))

\* timeseries.rolling(window=w).mean(): the mean sum / count as the pair
\* <<sum, count>>, NaN where the window holds fewer than min_periods
\* observations.
RollingMean(s, w) ==
    MkSeries(s.freq, s.index,
        [k \in 1..Len(s.values) |->
            LET obs == WindowObs(s.values, w, k)
            IN  IF Len(obs) < MinPeriods(w) \/ Len(obs) = 0 THEN NaN
                ELSE Num(<<SumCells(obs), Len(obs)>>)])

\* timeseries.rolling(window=w).std(): ddof = 1; the square root of the
\* variance (c * sum of squares - sum ^ 2) / (c * (c - 1)) as the pair of
\* its numerator and denominator, NaN where the window holds fewer than
\* min_periods observations or no more than ddof of them.
RollingStd(s, w) ==
    MkSeries(s.freq, s.index,
        [k \in 1..Len(s.values) |->
            LET obs == WindowObs(s.values, w, k)
                c == Len(obs)
            IN  IF c < MinPeriods(w) \/ c <= 1 THEN NaN
                ELSE Num(<<c * SumSquares(obs) - SumCells(obs) * SumCells(obs),
                           c * (c - 1)>>)])

\* timeseries.iloc[window:]
ILocFrom(s, k) ==
    MkSeries(s.freq, SubSeq(s.index, k + 1, Len(s.index)),
             SubSeq(s.values, k + 1, Len(s.values)))

\* lines 15-33, adfuller returning: rolling statistics, chart, report.
TestStationarity ==
    /\ stat_pc = "call"
    /\ rolmean' = RollingMean(timeseries, window)
    /\ rolstd' = RollingStd(timeseries, window)
    /\ orig' = ILocFrom(timeseries, window)
    /\ dfoutput' = <<"Test Statistic", "p-value", "#Lags Used",
                    "Number of Observations Used">>
    /\ stat_pc' = "returned"
    /\ UNCHANGED <<searchVars, plotVars, timeseries, window>>

\* lines 15-29, adfuller raising (the library's choice): the chart was
\* shown, no report is printed and the exception leaves the function.
TestStationarityRaises ==
    /\ stat_pc = "call"
    /\ rolmean' = RollingMean(timeseries, window)
    /\ rolstd' = RollingStd(timeseries, window)
    /\ orig' = ILocFrom(timeseries, window)
    /\ stat_pc' = "raised"
    /\ UNCHANGED <<searchVars, plotVars, timeseries, window, dfoutput>>

NextStationarity == TestStationarity \/ TestStationarityRaises

\* Series of up to MaxWindow cells, each a number or NaN, and every window
\* up to MaxWindow.
InitStationarity ==
    /\ \E n \in 1..MaxWindow :
          \E vs \in SeqsOf({NaN, Num(1), Num(2)}, n) :
              timeseries = SeriesFrom(FirstLabel("MS"), "MS", vs)
    /\ window \in 1..MaxWindow
    /\ StatNotCalled
    /\ data = None
    /\ train_delta = 0
    /\ start_train = None
    /\ raising = {}
    /\ fits = {}
    /\ NotCalled
    /\ NoPlot

SpecStationarity == InitStationarity /\ [][NextStationarity]_vars

NonMissing(s) == Cardinality({k \in 1..Len(s.values) : ~IsNaN(s.values[k])})

\* The first w - 1 cells are missing and every later one is defined.
MissingExactlyBefore(s, w) ==
    \A k \in 1..Len(s.values) : IsNaN(s.values[k]) <=> k < w

RollingDone == stat_pc # "call"

NoMissing(s) == \A k \in 1..Len(s.values) : ~IsNaN(s.values[k])

\* C9 as stated: on a series of length n without missing values and for
\* 1 <= w < n, the rolling mean and the rolling standard deviation each
\* have n - w + 1 values, missing exactly at the first w - 1 positions.
C9_RollingCountsFromOne ==
    (RollingDone /\ NoMissing(timeseries)
        /\ 1 <= window /\ window < SeriesLen(timeseries)) =>
        /\ NonMissing(rolmean) = SeriesLen(timeseries) - window + 1
        /\ MissingExactlyBefore(rolmean, window)
        /\ NonMissing(rolstd) = SeriesLen(timeseries) - window + 1
        /\ MissingExactlyBefore(rolstd, window)

\* C9 amended: that holds for 2 <= w < n; for w = 1 the rolling mean has n
\* values and the rolling standard deviation has none.
C9_RollingCounts ==
    (RollingDone /\ NoMissing(timeseries) /\ window < SeriesLen(timeseries)) =>
        /\ NonMissing(rolmean) = SeriesLen(timeseries) - window + 1
        /\ MissingExactlyBefore(rolmean, window)
        /\ window >= 2 =>
              /\ NonMissing(rolstd) = SeriesLen(timeseries) - window + 1
              /\ MissingExactlyBefore(rolstd, window)
        /\ window = 1 => NonMissing(rolstd) = 0

\* C9 witness: a window of 2 over a series of 4 values.
C9_Witness ==
    /\ RollingDone
    /\ NoMissing(timeseries)
    /\ window = 2
    /\ SeriesLen(timeseries) = 4
    /\ NonMissing(rolstd) = 3

=============================================================================
